---- MODULE Spec2Model ----
(***************************************************************************)
(* A model of vspreview's unit types (vspreview/core/types.py): Frame,     *)
(* FrameInterval and Scene objects, their constructors, arithmetic,        *)
(* comparison and (de)serialisation methods.                               *)
(*                                                                         *)
(* Frame objects are mutable and are held by reference, so they live on a  *)
(* heap: frames[i] is the `value` slot of the Frame object with identity   *)
(* i.  Scene objects hold the identities of their start and end Frames.    *)
(***************************************************************************)
EXTENDS Integers, Sequences, FiniteSets, TLC

\* ---------------------------------------------------------------- bounds
MaxFrames      == 2  \* Frame objects alive at once, Frame arithmetic
MaxSceneFrames == 3  \* Frame objects alive at once, under Scenes
MaxScenes      == 2  \* Scene objects alive at once
MaxVal         == 2  \* largest integer handled
MaxNeg         == 1  \* magnitude of the most negative integer handled

Vals   == (0 - MaxNeg)..MaxVal
Labels == {"", "x"}

VARIABLES
    frames,     \* heap of Frame objects: Seq of their `value` slots
    scenes,     \* heap of Scene objects: Seq of [start, end, label]
    fps,        \* <<fps_num, fps_den>> of main_window().current_output
    last,       \* the last operation evaluated: [op, args, res, ref]
    outputs,    \* the Output / AudioOutput objects: Seq of attribute records
    log,        \* the warnings given to logging.warning, oldest first
    win,        \* the MainWindow, its toolbars, and the interpreter state
    classes     \* the singleton classes: their `instance` and objects made

vars == <<frames, scenes, fps, last, outputs, log, win, classes>>

\* ------------------------------------------------------- Python values
\* A Python value: its type, and its payload (an integer, an object
\* identity on the heap, or a string).
PyVal(k, n, t) == [kind |-> k, v |-> n, s |-> t]
PInt(n)      == PyVal("int", n, "")
PBool(n)     == PyVal("bool", n, "")             \* bool is a subclass of int
PFloat(n)    == PyVal("float", n, "")            \* the float n.0
PStr(t)      == PyVal("str", 0, t)
PNone        == PyVal("NoneType", 0, "")
PFrame(id)   == PyVal("Frame", id, "")           \* reference to frames[id]
PInterval(n) == PyVal("FrameInterval", n, "")    \* FrameInterval of value n
PTime(us)    == PyVal("Time", us, "")            \* timedelta of us microseconds
PScene(id)   == PyVal("Scene", id, "")           \* reference to scenes[id]
Raised(e)    == PyVal(e, 0, "")                  \* the call raised e
Absent       == PyVal("absent", 0, "")           \* key not in a mapping

Errors == {"ValueError", "TypeError", "KeyError", "ZeroDivisionError",
           "IndexError", "AttributeError"}

\* PipetteToolbar.__init__: no clip is cached, and the mouse handlers are
\* not connected to the signals of the graphics view
PipetteToolbar_new ==
    [outputs |-> {}, tracking |-> FALSE, IS_SUBSCRIBED_MOUSE_EVT |-> FALSE,
     connected |-> 0, mouse_tracking |-> FALSE]

\* MainWindow.__init__: nothing is selected in the outputs combobox, the
\* timeline stands at its start and nothing was rendered.  gen counts the
\* times the outputs were dropped, signals the reload_signal emissions.
MainWindow_new ==
    [index |-> 0 - 1, position |-> 0, end_frame |-> 0, renders |-> 0,
     script_exec_failed |-> FALSE,
     storage |-> <<>>, storage_exists |-> FALSE,
     vs_outputs |-> <<>>, core |-> 0,
     argv |-> <<"vspreview">>, path |-> <<"site-packages">>,
     pipette |-> PipetteToolbar_new, gen |-> 0, signals |-> 0,
     closed |-> FALSE]

\* Singleton classes: A and C derive from Singleton, A with a __new__ of
\* its own (kept as __default_new__); B derives from A.
SingletonClasses == {"A", "B", "C"}

\* SingletonMeta.__init__ gives every class an `instance` of its own,
\* None (0); objects are the objects allocated so far, stack the
\* constructor calls whose __init__ is running, innermost last
NoInstances ==
    [instance |-> [c \in SingletonClasses |-> 0], objects |-> <<>>,
     stack |-> <<>>]

\* isinstance(x, int): True for int and for its subclass bool
IsInstanceInt(x) == x.kind \in {"int", "bool"}

FrameIds == 1..Len(frames)
SceneIds == 1..Len(scenes)

\* ------------------------------------------------ current output (fps)
\* Python's round(): to the nearest integer, ties to the even one; p / q
\* with q > 0.
RoundHalfEven(p, q) ==
    LET fl == p \div q
        r2 == 2 * (p - fl * q)
    IN  IF r2 < q THEN fl
        ELSE IF r2 > q THEN fl + 1
        ELSE IF fl % 2 = 0 THEN fl ELSE fl + 1

\* Output._calculate_frame(seconds) with seconds = us / 10^6 and
\* self.fps = fps_num / fps_den
MicrosPerSecond == 1000000
Output_calculate_frame(us) ==
    RoundHalfEven(us * fps[1], fps[2] * MicrosPerSecond)

\* ----------------------------------------------------- outcomes of calls
\* What a call produces: a freshly constructed Frame whose value slot is n
\* (the action that evaluates the call puts it on the heap), a
\* FrameInterval, a reference to an existing object, or Raised(e).
NewFrame(n) == PyVal("NewFrame", n, "")
IsRaised(r) == r.kind \in Errors

\* ------------------------------------------------------------- Frame
\* a variant of Frame_init_int that also rejects zero
Frame_init_int_rejects_zero(n) ==
    IF n <= 0 THEN Raised("ValueError") ELSE NewFrame(n)

\* Frame.__init__, the isinstance(init_value, int) branch
Frame_init_int(n) ==
    IF n < 0 THEN Raised("ValueError") ELSE NewFrame(n)

\* Output.to_frame(time): Frame(self._calculate_frame(float(time)))
Output_to_frame(time) == Frame_init_int(Output_calculate_frame(time.v))

\* Frame.__init__(init_value)
Frame_init(x) ==
    IF IsInstanceInt(x) THEN Frame_init_int(x.v)
    ELSE IF x.kind = "Frame" THEN NewFrame(frames[x.v])
    ELSE IF x.kind = "Time" THEN
        LET r == Output_to_frame(x) IN
        IF IsRaised(r) THEN r ELSE NewFrame(r.v)
    ELSE Raised("TypeError")

\* FrameInterval.__init__(init_value); the TimeInterval branch is the
\* mirror image of Frame's Time branch and is not exercised here.
FrameInterval_init(x) ==
    IF IsInstanceInt(x) THEN PInterval(x.v)
    ELSE IF x.kind = "FrameInterval" THEN PInterval(x.v)
    ELSE Raised("TypeError")

\* Frame.__add__(self, other): Frame(self.value + other.value)
Frame_add(a, d) == Frame_init(PInt(frames[a] + d.v))

\* a variant of Frame_sub_value whose FrameInterval branch adds
Frame_sub_value_adds(av, y) ==
    IF y.kind = "Frame" THEN FrameInterval_init(PInt(av - frames[y.v]))
    ELSE IF y.kind = "FrameInterval" THEN Frame_init(PInt(av + y.v))
    ELSE Raised("TypeError")

\* a variant of Frame_sub_value whose Frame branch takes other - self
Frame_sub_value_reversed(av, y) ==
    IF y.kind = "Frame" THEN FrameInterval_init(PInt(frames[y.v] - av))
    ELSE IF y.kind = "FrameInterval" THEN Frame_init(PInt(av - y.v))
    ELSE Raised("TypeError")

\* Frame.__sub__(self, other)
Frame_sub_value(av, y) ==
    IF y.kind = "Frame" THEN FrameInterval_init(PInt(av - frames[y.v]))
    ELSE IF y.kind = "FrameInterval" THEN Frame_init(PInt(av - y.v))
    ELSE Raised("TypeError")

Frame_sub(a, y) == Frame_sub_value(frames[a], y)

\* Frame.__iadd__(self, other): the new content of self's value slot
Frame_iadd(a, d) == frames[a] + d.v

\* Frame.__isub__(self, other): the new content of self's value slot;
\* other is anything with a value slot (a Frame or a FrameInterval)
SlotValue(y) == IF y.kind = "Frame" THEN frames[y.v] ELSE y.v
Frame_isub(a, y) == frames[a] - SlotValue(y)

\* YAMLObjectWrapper.__eq__ and __gt__ on two Frames, and the four
\* comparisons the base class derives from them
Frame_eq(a, b) == frames[a] = frames[b]
Frame_gt(a, b) == frames[a] > frames[b]
Frame_ne(a, b) == ~Frame_eq(a, b)
Frame_ge(a, b) == Frame_eq(a, b) \/ Frame_gt(a, b)
Frame_lt(a, b) == ~Frame_ge(a, b)
Frame_le_strict(a, b) == Frame_lt(a, b)   \* a variant of Frame_le: not >=
Frame_le(a, b) == ~Frame_gt(a, b)

\* ------------------------------------------------------------- Scene
\* What Scene.__init__ / Scene.__setstate__ produce: the slots of the
\* constructed Scene (start and end are Frame identities), or an error.
NewScene(st, en, l) == [kind |-> "NewScene", start |-> st, end |-> en, label |-> l]
SceneRaised(e)      == [kind |-> e, start |-> 0, end |-> 0, label |-> ""]

\* a variant of Scene_init_order that never swaps
Scene_init_order_no_swap(st, en, l) == NewScene(st, en, l)

\* the swap at the end of Scene.__init__: if self.start > self.end
Scene_init_order(st, en, l) ==
    IF Frame_gt(st, en) THEN NewScene(en, st, l) ELSE NewScene(st, en, l)

\* Scene.__init__(start, end, label); start and end are a Frame or None
Scene_init(start, end, label) ==
    IF start # PNone /\ end # PNone THEN Scene_init_order(start.v, end.v, label)
    ELSE IF start # PNone THEN Scene_init_order(start.v, start.v, label)
    ELSE IF end # PNone THEN Scene_init_order(end.v, end.v, label)
    ELSE SceneRaised("ValueError")

\* Scene.__eq__ and Scene.__gt__
Scene_eq(s, t) ==
    /\ Frame_eq(scenes[s].start, scenes[t].start)
    /\ Frame_eq(scenes[s].end, scenes[t].end)

\* a variant of Scene_gt that looks at the start frames only
Scene_gt_start_only(s, t) == Frame_gt(scenes[s].start, scenes[t].start)

Scene_gt(s, t) ==
    IF Frame_ne(scenes[s].start, scenes[t].start)
    THEN Frame_gt(scenes[s].start, scenes[t].start)
    ELSE Frame_gt(scenes[s].end, scenes[t].end)

\* the comparisons Scene inherits from YAMLObjectWrapper, which call
\* Scene's own __eq__ and __gt__
Scene_ne(s, t) == ~Scene_eq(s, t)
Scene_le(s, t) == ~Scene_gt(s, t)
Scene_ge(s, t) == Scene_eq(s, t) \/ Scene_gt(s, t)
Scene_lt(s, t) == ~Scene_ge(s, t)

\* Scene.__contains__(self, frame): self.start <= frame <= self.end
Scene_contains(s, f) ==
    Frame_le(scenes[s].start, f) /\ Frame_le(f, scenes[s].end)

\* YAMLObjectWrapper.__getstate__ on a Scene: one entry per slot
Scene_getstate(s) ==
    [start |-> PFrame(scenes[s].start),
     end   |-> PFrame(scenes[s].end),
     label |-> PStr(scenes[s].label)]

\* a variant of Scene_setstate that looks up all three keys before it
\* checks any type
Scene_setstate_keys_first(state) ==
    IF Absent \in {state.start, state.end, state.label}
    THEN SceneRaised("KeyError")
    ELSE IF state.start.kind # "Frame" \/ state.end.kind # "Frame"
                \/ state.label.kind # "str"
    THEN SceneRaised("TypeError")
    ELSE Scene_init(state.start, state.end, state.label.s)

\* Scene.__setstate__(state); a key the mapping lacks is Absent
Scene_setstate(state) ==
    IF state.start = Absent THEN SceneRaised("KeyError")
    ELSE IF state.start.kind # "Frame" THEN SceneRaised("TypeError")
    ELSE IF state.end = Absent THEN SceneRaised("KeyError")
    ELSE IF state.end.kind # "Frame" THEN SceneRaised("TypeError")
    ELSE IF state.label = Absent THEN SceneRaised("KeyError")
    ELSE IF state.label.kind # "str" THEN SceneRaised("TypeError")
    ELSE Scene_init(state.start, state.end, state.label.s)

\* ------------------------------------------------------------ inputs
FpsChoices == {<<1, 1>>, <<3, 2>>}
FrameRefs  == {PFrame(i) : i \in FrameIds}
Intervals  == {PInterval(n) : n \in Vals}
Times      == {PTime(h * (MicrosPerSecond \div 2)) : h \in Vals}
Others     == {PStr("x"), PNone, PFloat(1)}

\* arguments handed to Frame(...) and FrameInterval(...)
InitInputs ==
    {PInt(n) : n \in Vals} \cup {PBool(0), PBool(1)} \cup FrameRefs
        \cup Intervals \cup Times \cup Others

Call(o, a, r, id) == [op |-> o, args |-> a, res |-> r, ref |-> id]

\* ------------------------------------------------------------- state
Init ==
    /\ frames = <<>>
    /\ scenes = <<>>
    /\ fps \in FpsChoices
    /\ last = Call("none", <<>>, PNone, 0)
    /\ outputs = <<>>
    /\ log = <<>>
    /\ win = MainWindow_new
    /\ classes = NoInstances

\* The caller of `o` receives outcome r: a constructed Frame goes on the
\* heap, anything else leaves the heap alone.
Returns(o, a, r) ==
    /\ IF r.kind = "NewFrame"
       THEN /\ r.v <= MaxVal
            /\ frames' = Append(frames, r.v)
            /\ last' = Call(o, a, r, Len(frames) + 1)
       ELSE /\ frames' = frames
            /\ last' = Call(o, a, r, 0)
    /\ UNCHANGED <<scenes, fps, outputs, log, win, classes>>

\* Frame(x)
DoFrameInit(x) == Returns("Frame", <<x>>, Frame_init(x))

\* FrameInterval(x)
DoFrameIntervalInit(x) == Returns("FrameInterval", <<x>>, FrameInterval_init(x))

\* a + d
DoFrameAdd(a, d) == Returns("add", <<PFrame(a), d>>, Frame_add(a, d))

\* a - y
DoFrameSub(a, y) == Returns("sub", <<PFrame(a), y>>, Frame_sub(a, y))

\* (a + d) - d: the sum is a temporary that is dropped once the
\* difference is evaluated
Frame_add_sub(a, d) ==
    LET sum == Frame_add(a, d) IN
    IF IsRaised(sum) THEN sum ELSE Frame_sub_value(sum.v, d)

DoFrameAddSub(a, d) ==
    /\ frames[a] + d.v <= MaxVal
    /\ Returns("addsub", <<PFrame(a), d>>, Frame_add_sub(a, d))

\* a += d
DoFrameIAdd(a, d) ==
    /\ Frame_iadd(a, d) \in Vals
    /\ frames' = [frames EXCEPT ![a] = Frame_iadd(a, d)]
    /\ last' = Call("iadd", <<PFrame(a), d>>, PFrame(a), a)
    /\ UNCHANGED <<scenes, fps, outputs, log, win, classes>>

\* a -= y
DoFrameISub(a, y) ==
    /\ Frame_isub(a, y) \in Vals
    /\ frames' = [frames EXCEPT ![a] = Frame_isub(a, y)]
    /\ last' = Call("isub", <<PFrame(a), y>>, PFrame(a), a)
    /\ UNCHANGED <<scenes, fps, outputs, log, win, classes>>

\* a == b, a != b, a < b, a <= b, a > b, a >= b
DoFrameCompare(a, b) ==
    /\ last' = Call("cmp", <<PFrame(a), PFrame(b)>>,
                    [eq |-> Frame_eq(a, b), ne |-> Frame_ne(a, b),
                     lt |-> Frame_lt(a, b), le |-> Frame_le(a, b),
                     gt |-> Frame_gt(a, b), ge |-> Frame_ge(a, b)], 0)
    /\ UNCHANGED <<frames, scenes, fps, outputs, log, win, classes>>

\* The caller of a Scene constructor receives outcome r.
SceneReturns(o, a, r) ==
    /\ IF r.kind = "NewScene"
       THEN /\ Len(scenes) < MaxScenes
            /\ scenes' = Append(scenes, [start |-> r.start, end |-> r.end,
                                         label |-> r.label])
            /\ last' = Call(o, a, r, Len(scenes) + 1)
       ELSE /\ scenes' = scenes
            /\ last' = Call(o, a, r, 0)
    /\ UNCHANGED <<frames, fps, outputs, log, win, classes>>

\* Scene(start, end, label)
DoSceneInit(start, end, label) ==
    SceneReturns("Scene", <<start, end, PStr(label)>>, Scene_init(start, end, label))

\* f in s
DoSceneContains(s, f) ==
    /\ last' = Call("contains", <<PScene(s), PFrame(f)>>, Scene_contains(s, f), 0)
    /\ UNCHANGED <<frames, scenes, fps, outputs, log, win, classes>>

\* s == t, s != t, s < t, s <= t, s > t, s >= t
DoSceneCompare(s, t) ==
    /\ last' = Call("scmp", <<PScene(s), PScene(t)>>,
                    [eq |-> Scene_eq(s, t), ne |-> Scene_ne(s, t),
                     lt |-> Scene_lt(s, t), le |-> Scene_le(s, t),
                     gt |-> Scene_gt(s, t), ge |-> Scene_ge(s, t)], 0)
    /\ UNCHANGED <<frames, scenes, fps, outputs, log, win, classes>>

\* t = Scene.__new__(Scene); t.__setstate__(s.__getstate__())
DoSceneRoundTrip(s) ==
    SceneReturns("roundtrip", <<PScene(s)>>, Scene_setstate(Scene_getstate(s)))

\* Frame and FrameInterval: construction, arithmetic and comparison; a
\* call that constructs a Frame is taken while fewer than MaxFrames exist
HasRoom(r) == r.kind = "NewFrame" => Len(frames) < MaxFrames

Next ==
    \/ \E x \in InitInputs : HasRoom(Frame_init(x)) /\ DoFrameInit(x)
    \/ \E x \in InitInputs : DoFrameIntervalInit(x)
    \/ \E a \in FrameIds, d \in Intervals :
           HasRoom(Frame_add(a, d)) /\ DoFrameAdd(a, d)
    \/ \E a \in FrameIds, y \in FrameRefs \cup Intervals \cup Others :
           HasRoom(Frame_sub(a, y)) /\ DoFrameSub(a, y)
    \/ \E a \in FrameIds, d \in Intervals :
           HasRoom(Frame_add_sub(a, d)) /\ DoFrameAddSub(a, d)
    \/ \E a \in FrameIds, d \in Intervals : DoFrameIAdd(a, d)
    \/ \E a \in FrameIds, y \in FrameRefs \cup Intervals : DoFrameISub(a, y)
    \/ \E a \in FrameIds, b \in FrameIds : DoFrameCompare(a, b)

Spec == Init /\ [][Next]_vars

\* Scenes over Frames that their owner keeps using: Frames are built from
\* integers and stepped in place (here only ever to values >= 0), Scenes
\* are built, queried, compared and sent through __getstate__ /
\* __setstate__
SceneInitState ==
    /\ frames = <<>>
    /\ scenes = <<>>
    /\ fps = <<1, 1>>
    /\ last = Call("none", <<>>, PNone, 0)
    /\ outputs = <<>>
    /\ log = <<>>
    /\ win = MainWindow_new
    /\ classes = NoInstances

Step == PInterval(1)

SceneNext ==
    \/ \E n \in 0..MaxVal : Len(frames) < MaxSceneFrames /\ DoFrameInit(PInt(n))
    \/ \E a \in FrameIds : DoFrameIAdd(a, Step)
    \/ \E a \in FrameIds : Frame_isub(a, Step) >= 0 /\ DoFrameISub(a, Step)
    \/ \E st \in FrameRefs \cup {PNone}, en \in FrameRefs \cup {PNone}, l \in Labels :
           DoSceneInit(st, en, l)
    \/ \E s \in SceneIds, f \in FrameIds : DoSceneContains(s, f)
    \/ \E s \in SceneIds, t \in SceneIds : DoSceneCompare(s, t)
    \/ \E s \in SceneIds : DoSceneRoundTrip(s)

SceneSpec == SceneInitState /\ [][SceneNext]_vars

\* ------------------------------------------------ Scene.__setstate__
\* The mappings handed to Scene.__setstate__: each key is missing, holds
\* a Frame (a str for label) or holds a value of another type.
SceneStates ==
    [start : {Absent, PInt(0)} \cup FrameRefs,
     end   : {Absent, PInt(0)} \cup FrameRefs,
     label : {Absent, PInt(0)} \cup {PStr(l) : l \in Labels}]

\* t = Scene.__new__(Scene); t.__setstate__(state)
DoSceneSetstate(state) ==
    SceneReturns("setstate", <<state.start, state.end, state.label>>,
                 Scene_setstate(state))

\* the Frames a mapping refers to are constructed first, as yaml
\* constructs the Frame nodes of a Scene node before the Scene itself
MaxDocFrames == 1
MaxRestored  == 1

SetstateNext ==
    \/ \E n \in 0..MaxVal : Len(frames) < MaxDocFrames /\ DoFrameInit(PInt(n))
    \/ \E state \in SceneStates :
            Len(scenes) < MaxRestored /\ DoSceneSetstate(state)

SetstateSpec == SceneInitState /\ [][SetstateNext]_vars

\* =============================================================== Output
\* ------------------------------------------------------ float values
\* The floats of an Output (fps, play_fps, seconds) are held exactly, as
\* fractions num / den; NoFloat is an attribute that was never assigned.
RECURSIVE Gcd(_, _)
Gcd(a, b) == IF b = 0 THEN a ELSE Gcd(b, a % b)

Ratio(p, q) == [kind |-> "float", num |-> p, den |-> q]
NoFloat     == [kind |-> "absent", num |-> 0, den |-> 1]

\* p / q for p >= 0 and q > 0, in lowest terms
Quotient(p, q) == LET g == Gcd(p, q) IN Ratio(p \div g, q \div g)

\* the int n where a float is expected
IntForFloat(n) == [kind |-> "int", num |-> n, den |-> 1]

\* a Frame held by value, and a SceningLists object holding n Scenes
FrameOf(n)        == PyVal("Frame", n, "")
SceningListsOf(n) == PyVal("SceningLists", n, "")

\* ------------------------------------------------------ Output objects
\* Output.__new__(Output): every slot unassigned (hasattr is False);
\* `stored` remembers the mapping the object was restored from.
NoState ==
    [name |-> Absent, last_showed_frame |-> Absent, play_fps |-> NoFloat,
     frame_to_show |-> Absent, scening_lists |-> Absent]

Output_new(c) ==
    [cls |-> c, name |-> Absent, last_showed_frame |-> Absent,
     play_fps |-> NoFloat, frame_to_show |-> Absent,
     scening_lists |-> Absent, index |-> 0, fps_num |-> 0, fps_den |-> 0,
     fps |-> NoFloat, total_frames |-> 0, total_time |-> 0,
     end_frame |-> 0, end_time |-> 0, props |-> Absent, ready |-> FALSE,
     stored |-> NoState]

\* an object under construction, with the warnings logged so far
Loading(o, w)  == [o |-> o, w |-> w]

\* vspreview.utils.try_load(state, name, expected_type, self.__setattr__,
\* error_msg): a typed load, which assigns state[name] when the key is
\* there and holds an expected_type, and logs error_msg otherwise
try_load(c, state, name, expected_type, error_msg) ==
    IF state[name] # Absent /\ state[name].kind = expected_type
    THEN Loading([c.o EXCEPT ![name] = state[name]], c.w)
    ELSE Loading(c.o, Append(c.w, error_msg))

\* a variant of Output_setstate_play_fps that takes any float, positive
\* or not
Output_setstate_play_fps_any_float(c, state) ==
    IF state.play_fps = NoFloat \/ state.play_fps.kind # "float"
    THEN Loading(c.o, Append(c.w, "play fps weren't parsed successfully"))
    ELSE Loading([c.o EXCEPT !.play_fps = state.play_fps], c.w)

\* the play_fps block of Output.__setstate__
Output_setstate_play_fps(c, state) ==
    IF state.play_fps = NoFloat \/ state.play_fps.kind # "float"
    THEN Loading(c.o, Append(c.w, "play fps weren't parsed successfully"))
    ELSE IF state.play_fps.num > 0
    THEN Loading([c.o EXCEPT !.play_fps = state.play_fps], c.w)
    ELSE c

\* Output.__setstate__(state) on a new object
Output_setstate(state) ==
    LET c0 == Loading([Output_new("Output") EXCEPT
                          !.stored = state, !.name = PStr("")], <<>>)
        c1 == try_load(c0, state, "name", "str", "failed to parse name")
        c2 == Loading([c1.o EXCEPT !.last_showed_frame = FrameOf(0)], c1.w)
        c3 == try_load(c2, state, "last_showed_frame", "Frame",
                       "failed to parse last showed frame")
        c4 == Loading([c3.o EXCEPT !.scening_lists = SceningListsOf(0)], c3.w)
        c5 == try_load(c4, state, "scening_lists", "SceningLists",
                       "scening lists weren't parsed successfully")
    IN  Output_setstate_play_fps(c5, state)

\* --------------------------------------------------------- conversions
\* timedelta(seconds=x) for the float x: x * 10^6 rounded to a whole
\* number of microseconds, halves to even
TimeOfSeconds(x) ==
    LET g == Gcd(MicrosPerSecond, x.den)
    IN  RoundHalfEven(x.num * (MicrosPerSecond \div g), x.den \div g)

\* a variant of SecondsTimesFps that takes a zero fps as 1
SecondsTimesFps_or_1(o, us) ==
    IF o.fps.num = 0 THEN Ratio(us, MicrosPerSecond)
    ELSE LET g == Gcd(o.fps.num, MicrosPerSecond)
         IN  Ratio(us * (o.fps.num \div g),
                   o.fps.den * (MicrosPerSecond \div g))

\* seconds * self.fps for seconds = us / 10^6, as a fraction
SecondsTimesFps(o, us) ==
    LET g == Gcd(o.fps.num, MicrosPerSecond)
    IN  Ratio(us * (o.fps.num \div g), o.fps.den * (MicrosPerSecond \div g))

\* a variant of calculate_frame that takes the floor for both classes
calculate_frame_floors(o, us) ==
    LET x == SecondsTimesFps(o, us) IN x.num \div x.den

\* a variant of calculate_frame that rounds for both classes
calculate_frame_rounds(o, us) ==
    LET x == SecondsTimesFps(o, us) IN RoundHalfEven(x.num, x.den)

\* Output._calculate_frame: round(seconds * self.fps);
\* AudioOutput._calculate_frame: floor(seconds * self.fps)
calculate_frame(o, us) ==
    LET x == SecondsTimesFps(o, us)
    IN  IF o.cls = "AudioOutput" THEN x.num \div x.den
        ELSE RoundHalfEven(x.num, x.den)

\* Output._calculate_seconds: frame_num / (self.fps or 1);
\* AudioOutput._calculate_seconds: frame_num / self.fps
calculate_seconds(o, frame_num) ==
    IF o.fps.num = 0
    THEN IF o.cls = "AudioOutput" THEN Raised("ZeroDivisionError")
         ELSE Ratio(frame_num, 1)
    ELSE Ratio(frame_num * o.fps.den, o.fps.num)

\* to_frame(time), to_frame_interval(time_interval): the argument is the
\* number of microseconds of the Time / TimeInterval
to_frame(o, us)          == Frame_init_int(calculate_frame(o, us))
to_frame_interval(o, us) == PInterval(calculate_frame(o, us))

\* to_time(frame), to_time_interval(frame_interval): the argument is the
\* integer of the Frame / FrameInterval
to_time(o, n) ==
    LET x == calculate_seconds(o, n)
    IN  IF x.kind = "float" THEN PTime(TimeOfSeconds(x)) ELSE x

\* TimeInterval(seconds=...) is built as Time(seconds=...) is
to_time_interval(o, n) == to_time(o, n)

\* ------------------------------------------------------------ __init__
\* str(index)
str(n) == <<"0", "1", "2">>[n + 1]

\* an __init__ stopped by an exception, or run to its end
Stopped(o, e) == [o |-> o, res |-> Raised(e)]
Done(o)       == [o |-> o, res |-> PNone]

\* the timing fields both __init__ methods compute after self.fps
Output_init_timing(o1, num_frames) ==
    LET o2 == [o1 EXCEPT !.total_frames = num_frames]
        tt == to_time_interval(o2, num_frames - 1)
        et == to_time(o2, num_frames - 1)
    IN  IF IsRaised(tt) THEN Stopped(o2, tt.kind)
        ELSE Done([o2 EXCEPT !.total_time = tt.v,
                             !.end_frame = num_frames - 1,
                             !.end_time = et.v])

\* the two assignments of self.name in Output.__init__
Output_init_name(o, src) ==
    IF src.name # Absent
    THEN PStr("Output " \o str(o.index) \o ": " \o src.name.s)
    ELSE PStr("Output " \o str(o.index))

\* the "storable attributes" part of Output.__init__
Output_init_storable(o, src) ==
    [o EXCEPT
        !.name = Output_init_name(o, src),
        !.last_showed_frame =
            IF @ = Absent \/ @.v > o.end_frame THEN FrameOf(0) ELSE @,
        !.scening_lists = IF @ = Absent THEN SceningListsOf(0) ELSE @,
        !.play_fps = IF @ = NoFloat THEN Quotient(o.fps_num, o.fps_den) ELSE @,
        !.frame_to_show = IF @ = Absent THEN PNone ELSE @,
        !.ready = TRUE]

\* Output.__init__(self, vs_output, index) on a new or a restored object;
\* src is what vs_output gives: num_frames, fps_num, fps_den, and the
\* 'Name' frame property (self.props holds it, or Absent)
Output_init(o, src, index) ==
    LET o1 == [o EXCEPT !.index = index, !.props = src.name,
                        !.fps_num = src.fps_num, !.fps_den = src.fps_den]
    IN  IF src.fps_den = 0 THEN Stopped(o1, "ZeroDivisionError")
        ELSE LET t == Output_init_timing(
                        [o1 EXCEPT !.fps = Quotient(src.fps_num, src.fps_den)],
                        src.num_frames)
             IN  IF IsRaised(t.res) THEN t
                 ELSE Done(Output_init_storable(t.o, src))

\* AudioOutput.__init__(self, vs_output, index); src gives num_frames and
\* sample_rate
SAMPLES_PER_FRAME == 3000
AudioOutput_init(o, src, index) ==
    LET o1 == [o EXCEPT !.index = index, !.fps_num = src.sample_rate,
                        !.fps_den = SAMPLES_PER_FRAME,
                        !.fps = Quotient(src.sample_rate, SAMPLES_PER_FRAME)]
        t  == Output_init_timing(o1, src.num_frames)
    IN  IF IsRaised(t.res) THEN t
        ELSE Done([t.o EXCEPT
                     !.name = IF @ = Absent
                              THEN PStr("Audio Output " \o str(index)) ELSE @,
                     !.ready = TRUE])

\* Output.__getstate__: one entry per name in storable_attrs
Output_getstate(o) ==
    [name |-> o.name, last_showed_frame |-> o.last_showed_frame,
     play_fps |-> o.play_fps, frame_to_show |-> o.frame_to_show,
     scening_lists |-> o.scening_lists]

\* ------------------------------------------------- restoring an Output
MaxClipFrames == 2

\* what a vs_output gives Output.__init__; a clip of variable frame rate
\* has fps 0 / 1
OutputFps == {<<0, 1>>, <<1, 1>>, <<3, 2>>}
VideoSources ==
    {[num_frames |-> n, fps_num |-> f[1], fps_den |-> f[2], name |-> p] :
        n \in 1..MaxClipFrames, f \in OutputFps, p \in {Absent, PStr("clip")}}

\* the mappings the storage file hands to Output.__setstate__: each key
\* is missing, holds a value of the type __getstate__ writes, or holds a
\* value of another type
OutputStates ==
    [name              : {Absent, PStr("x"), PInt(0)},
     last_showed_frame : {Absent, PInt(0)}
                            \cup {FrameOf(n) : n \in 0..MaxClipFrames},
     play_fps          : {NoFloat, Ratio(2, 1), Ratio(0, 1), Ratio(0 - 1, 1),
                          IntForFloat(2)},
     frame_to_show     : {Absent, PNone, FrameOf(1)},
     scening_lists     : {Absent, SceningListsOf(1), PNone}]

\* yaml constructs an Output from the storage file:
\* o = Output.__new__(Output); o.__setstate__(state)
DoOutputSetstate(state) ==
    /\ outputs = <<>>
    /\ LET c == Output_setstate(state)
       IN  /\ outputs' = <<c.o>>
           /\ log' = log \o c.w
    /\ last' = Call("Output.__setstate__", <<>>, PNone, 1)
    /\ UNCHANGED <<frames, scenes, fps, win, classes>>

\* the restored object is initialized from its source:
\* o.__init__(vs_output, index)
DoOutputInit(src) ==
    /\ Len(outputs) = 1 /\ ~outputs[1].ready
    /\ LET r == Output_init(outputs[1], src, 0)
       IN  /\ outputs' = <<r.o>>
           /\ last' = Call("Output.__init__", <<src>>, r.res, 1)
    /\ UNCHANGED <<frames, scenes, fps, log, win, classes>>

\* without a storage file: Output(vs_output, index)
DoOutputCreate(src) ==
    /\ outputs = <<>>
    /\ LET r == Output_init(Output_new("Output"), src, 0)
       IN  /\ outputs' = <<r.o>>
           /\ last' = Call("Output", <<src>>, r.res, 1)
    /\ UNCHANGED <<frames, scenes, fps, log, win, classes>>

\* MainWindow.switch_frame(pos) for an int pos >= 0, as far as it
\* assigns attributes of the current output
DoSwitchFrame(pos) ==
    /\ Len(outputs) = 1 /\ outputs[1].ready
    /\ outputs' = <<[outputs[1] EXCEPT
                       !.frame_to_show = FrameOf(pos),
                       !.last_showed_frame =
                           IF pos > outputs[1].end_frame THEN @
                           ELSE FrameOf(pos)]>>
    /\ last' = Call("switch_frame", <<PInt(pos)>>, PNone, 1)
    /\ UNCHANGED <<frames, scenes, fps, log, win, classes>>

\* the output is written to the storage file with __getstate__, and on
\* the next start restored from it and initialized from the same source
DoOutputReload(src) ==
    /\ Len(outputs) = 1 /\ outputs[1].ready
    /\ src.fps_num = outputs[1].fps_num /\ src.fps_den = outputs[1].fps_den
    /\ src.num_frames = outputs[1].total_frames
    /\ src.name = outputs[1].props
    /\ LET state == Output_getstate(outputs[1])
           c     == Output_setstate(state)
           r     == Output_init(c.o, src, outputs[1].index)
       IN  /\ outputs' = <<r.o>>
           /\ log' = log \o c.w
           /\ last' = Call("reload", <<state, src>>, r.res, 1)
    /\ UNCHANGED <<frames, scenes, fps, win, classes>>

OutputInit ==
    /\ frames = <<>>
    /\ scenes = <<>>
    /\ fps = <<1, 1>>
    /\ last = Call("none", <<>>, PNone, 0)
    /\ outputs = <<>>
    /\ log = <<>>
    /\ win = MainWindow_new
    /\ classes = NoInstances

OutputNext ==
    \/ \E state \in OutputStates : DoOutputSetstate(state)
    \/ \E src \in VideoSources : DoOutputInit(src)
    \/ \E src \in VideoSources : DoOutputCreate(src)
    \/ \E pos \in 0..MaxClipFrames : DoSwitchFrame(pos)
    \/ \E src \in VideoSources : DoOutputReload(src)

OutputSpec == OutputInit /\ [][OutputNext]_vars

\* ------------------------------------------------------- load_storage
MaxOutputs == 3

\* One output of the storage file: the mapping of its Output node, and
\* the mapping of the Scene node inside its scening_lists node.
DocScenes ==
    [start : {PInt(0)} \cup FrameRefs,
     end   : {Absent} \cup FrameRefs,
     label : {PStr("")}]
DocBlocks == [name : {PStr("x"), PStr("y")}, scene : DocScenes]

\* the storage file: text that yaml cannot parse, or up to MaxOutputs
\* output nodes
Unparsable == <<>>
Documents  == UNION {[1..n -> DocBlocks] : n \in 1..MaxOutputs}

\* the mapping Output.__setstate__ gets for block b once its children are
\* constructed
BlockState(b) ==
    [name |-> b.name, last_showed_frame |-> FrameOf(0),
     play_fps |-> Ratio(2, 1), frame_to_show |-> PNone,
     scening_lists |-> SceningListsOf(1)]

\* what yaml.load has done so far: the Outputs and Scenes constructed,
\* the warnings logged, and the exception that stopped it (or None)
Loaded(os, ss, w, r) == [outs |-> os, scns |-> ss, w |-> w, res |-> r]

\* yaml.load(storage_file, Loader=yaml.CLoader) from output node i on:
\* a node's children are constructed, and their __setstate__ called,
\* before the node's own __setstate__; an exception of a __setstate__
\* leaves yaml.load as it is
RECURSIVE yaml_load(_, _, _)
yaml_load(doc, i, acc) ==
    IF i > Len(doc) THEN acc
    ELSE LET sc == Scene_setstate(doc[i].scene)
         IN  IF IsRaised(sc) THEN Loaded(acc.outs, acc.scns, acc.w, Raised(sc.kind))
             ELSE LET c == Output_setstate(BlockState(doc[i]))
                  IN  yaml_load(doc, i + 1,
                          Loaded(Append(acc.outs, c.o),
                                 Append(acc.scns, [start |-> sc.start,
                                     end |-> sc.end, label |-> sc.label]),
                                 acc.w \o c.w, acc.res))

\* MainWindow.load_storage(): only yaml.YAMLError is caught
load_storage(storage_not_found, doc) ==
    IF storage_not_found THEN Loaded(<<>>, <<>>, <<>>, PNone)
    ELSE IF doc = Unparsable
    THEN Loaded(<<>>, <<>>, <<"Storage parsing failed">>, PNone)
    ELSE yaml_load(doc, 1, Loaded(<<>>, <<>>, <<>>, PNone))

\* load_script calls load_storage once per script it loads; outputs holds
\* the Output objects restored from the storage file
DoLoadStorage(storage_not_found, doc) ==
    /\ outputs = <<>> /\ log = <<>> /\ last.op # "load_storage"
    /\ LET r == load_storage(storage_not_found, doc)
       IN  /\ outputs' = r.outs
           /\ scenes' = scenes \o r.scns
           /\ log' = log \o r.w
           /\ last' = Call("load_storage",
                           <<PBool(IF storage_not_found THEN 1 ELSE 0), doc>>,
                           r.res, 0)
    /\ UNCHANGED <<frames, fps, win, classes>>

LoadNext ==
    \/ \E n \in 0..MaxVal : Len(frames) < MaxDocFrames /\ DoFrameInit(PInt(n))
    \/ \E nf \in BOOLEAN, doc \in Documents \cup {Unparsable} :
            DoLoadStorage(nf, doc)

LoadSpec == OutputInit /\ [][LoadNext]_vars

\* --------------------------------------------- frame / time conversion
MaxConvFrame == 6

\* frame rates of video sources (0 / 1 is a clip of variable frame rate,
\* 1 / 0 a source that reports a zero denominator) and sample rates of
\* audio sources
ConvFps     == {<<0, 1>>, <<1, 0>>, <<1, 1>>, <<16, 1>>, <<24000, 1001>>,
                <<2000000, 1>>, <<4000000, 1>>}
SampleRates == {0, 44100, 48000}
ConvVideoSources ==
    {[num_frames |-> 2, fps_num |-> f[1], fps_den |-> f[2], name |-> Absent] :
        f \in ConvFps}
ConvAudioSources == {[num_frames |-> 2, sample_rate |-> r] : r \in SampleRates}

\* the Times handed to to_frame and to_frame_interval, in microseconds:
\* multiples of half a second, and the instants just before and at the
\* end of the first audio frame of 48000 / 3000 = 16 frames per second
ConvTimes ==
    {h * (MicrosPerSecond \div 2) : h \in 0..MaxConvFrame}
        \cup {61875, 62500}

\* Output(vs_output, 0) or AudioOutput(vs_output, 0)
DoConvOutputCreate(c, src) ==
    /\ outputs = <<>>
    /\ LET r == IF c = "AudioOutput"
                THEN AudioOutput_init(Output_new(c), src, 0)
                ELSE Output_init(Output_new(c), src, 0)
       IN  /\ outputs' = <<r.o>>
           /\ last' = Call(c, <<src>>, r.res, 1)
    /\ UNCHANGED <<frames, scenes, fps, log, win, classes>>

\* a conversion called on the constructed output
ConvReturns(o, a, r) ==
    /\ Len(outputs) = 1 /\ outputs[1].ready
    /\ last' = Call(o, a, r, 1)
    /\ UNCHANGED <<frames, scenes, fps, outputs, log, win, classes>>

DoToFrame(us) ==
    ConvReturns("to_frame", <<PTime(us)>>, to_frame(outputs[1], us))
DoToFrameInterval(us) ==
    ConvReturns("to_frame_interval", <<PTime(us)>>,
                to_frame_interval(outputs[1], us))
DoToTime(n) ==
    ConvReturns("to_time", <<FrameOf(n)>>, to_time(outputs[1], n))
DoToTimeInterval(n) ==
    ConvReturns("to_time_interval", <<PInterval(n)>>,
                to_time_interval(outputs[1], n))

\* to_frame(to_time(Frame(n)))
to_time_to_frame(o, n) ==
    LET t == to_time(o, n)
    IN  IF IsRaised(t) THEN t ELSE to_frame(o, t.v)
DoToTimeToFrame(n) ==
    ConvReturns("to_time_to_frame", <<FrameOf(n)>>,
                to_time_to_frame(outputs[1], n))

ConvNext ==
    \/ \E src \in ConvVideoSources : DoConvOutputCreate("Output", src)
    \/ \E src \in ConvAudioSources : DoConvOutputCreate("AudioOutput", src)
    \/ \E us \in ConvTimes : DoToFrame(us)
    \/ \E us \in ConvTimes : DoToFrameInterval(us)
    \/ \E n \in 0..MaxConvFrame : DoToTime(n)
    \/ \E n \in 0..MaxConvFrame : DoToTimeInterval(n)
    \/ \E n \in 0..MaxConvFrame : DoToTimeToFrame(n)

ConvSpec == OutputInit /\ [][ConvNext]_vars

\* ============================================== Time and TimeInterval
\* a timedelta of us microseconds, and a TimeInterval holding one; the
\* outcome of a constructor that set self.value to us microseconds
PTimedelta(us)    == PyVal("timedelta", us, "")
PTimeInterval(us) == PyVal("TimeInterval", us, "")
NewTime(us)       == PyVal("NewTime", us, "")

\* main_window().current_output, as far as the conversions read it
CurrentOutput ==
    [cls |-> "Output", fps |-> Quotient(fps[1], fps[2])]

\* Time.__init__(init_value, **kwargs) for own = "Time", from = "Frame",
\* and TimeInterval.__init__ for own = "TimeInterval",
\* from = "FrameInterval"; kw is the seconds= keyword, or Absent when no
\* keyword is given
TimeLike_init(own, from, x, kw) ==
    IF x.kind = "timedelta" THEN NewTime(x.v)
    ELSE IF x.kind = own THEN NewTime(x.v)
    ELSE IF x.kind = from THEN NewTime(to_time(CurrentOutput, x.v).v)
    ELSE IF kw # Absent THEN NewTime(kw.v * MicrosPerSecond)
    ELSE IF x = PNone THEN NewTime(0)
    ELSE Raised("TypeError")

Time_init(x, kw)         == TimeLike_init("Time", "Frame", x, kw)
TimeInterval_init(x, kw) == TimeLike_init("TimeInterval", "FrameInterval", x, kw)

\* positional arguments: None (none given), durations, Times,
\* TimeIntervals, Frames, FrameIntervals and values of other types
TimeInputs ==
    {PNone, PInt(1), PStr("x"), PFloat(1)}
        \cup {PTimedelta(h * (MicrosPerSecond \div 2)) : h \in Vals}
        \cup Times
        \cup {PTimeInterval(h * (MicrosPerSecond \div 2)) : h \in Vals}
        \cup {FrameOf(n) : n \in 0..MaxVal}
        \cup Intervals
Keywords == {Absent} \cup {PInt(n) : n \in 0..MaxVal}

DoTimeInit(x, kw) ==
    /\ last' = Call("Time", <<x, kw>>, Time_init(x, kw), 0)
    /\ UNCHANGED <<frames, scenes, fps, outputs, log, win, classes>>

DoTimeIntervalInit(x, kw) ==
    /\ last' = Call("TimeInterval", <<x, kw>>, TimeInterval_init(x, kw), 0)
    /\ UNCHANGED <<frames, scenes, fps, outputs, log, win, classes>>

TimeNext ==
    \/ \E x \in TimeInputs, kw \in Keywords : DoTimeInit(x, kw)
    \/ \E x \in TimeInputs, kw \in Keywords : DoTimeIntervalInit(x, kw)

TimeSpec == Init /\ [][TimeNext]_vars

\* ---------------------------------------------------------- MainWindow
\* The window's outputs are `outputs`; the current output is the item of
\* the outputs combobox, outputs[win.index + 1].
\* the calls that take the count of render requests past MaxRenders are
\* left out; the calls that render nothing stay enabled
MaxRenders == 1
OUTPUT_INDEX == 0

\* what a MainWindow method leaves: the outputs, the window and what it
\* returned or raised
Main(os, w, r) == [outs |-> os, win |-> w, res |-> r]

\* Frame(pos) for an int or a Frame
FrameFor(pos) ==
    IF pos.kind = "Frame" THEN pos
    ELSE LET r == Frame_init_int(pos.v)
         IN  IF IsRaised(r) THEN r ELSE FrameOf(pos.v)

\* a variant of switch_frame that checks the range before it assigns
\* frame_to_show
switch_frame_checks_first(os, w, pos, render_frame, rendered) ==
    IF pos.kind = "NoneType" THEN Main(os, w, PNone)
    ELSE LET frame == FrameFor(pos)
             i     == w.index + 1
         IN  IF IsRaised(frame) THEN Main(os, w, frame)
             ELSE IF frame.v > os[i].end_frame THEN Main(os, w, PNone)
             ELSE IF render_frame /\ ~rendered
             THEN Main([os EXCEPT ![i].frame_to_show = frame], w,
                       Raised("TypeError"))
             ELSE Main([os EXCEPT ![i].frame_to_show = frame,
                                  ![i].last_showed_frame = frame],
                       [w EXCEPT !.position = frame.v,
                                 !.renders = IF render_frame THEN @ + 1 ELSE @],
                       PNone)

\* a variant of switch_frame without the range check
switch_frame_unchecked(os, w, pos, render_frame, rendered) ==
    IF pos.kind = "NoneType" THEN Main(os, w, PNone)
    ELSE LET frame == FrameFor(pos)
             i     == w.index + 1
             os1   == [os EXCEPT ![i].frame_to_show = frame]
         IN  IF IsRaised(frame) THEN Main(os, w, frame)
             ELSE IF render_frame /\ ~rendered
             THEN Main(os1, w, Raised("TypeError"))
             ELSE Main([os1 EXCEPT ![i].last_showed_frame = frame],
                       [w EXCEPT !.position = frame.v,
                                 !.renders = IF render_frame THEN @ + 1 ELSE @],
                       PNone)

\* MainWindow.switch_frame(pos, render_frame=...).  The render request is
\* a service of the output, keyed by the frame: it draws the frame
\* (rendered) or raises.
switch_frame(os, w, pos, render_frame, rendered) ==
    IF pos.kind = "NoneType" THEN Main(os, w, PNone)
    ELSE LET frame == FrameFor(pos)
             i     == w.index + 1
             os1   == [os EXCEPT ![i].frame_to_show = frame]
         IN  IF IsRaised(frame) THEN Main(os, w, frame)
             ELSE IF frame.v > os[i].end_frame THEN Main(os1, w, PNone)
             ELSE IF render_frame /\ ~rendered
             THEN Main(os1, w, Raised("TypeError"))
             ELSE Main([os1 EXCEPT ![i].last_showed_frame = frame],
                       [w EXCEPT !.position = frame.v,
                                 !.renders = IF render_frame THEN @ + 1 ELSE @],
                       PNone)

\* ------------------------------------------------------ PipetteToolbar
\* The clip cache `outputs` is a WeakKeyDictionary keyed by the output
\* object: an output is identified by the generation of outputs it
\* belongs to and its index.
CurrentKey(w) == [gen |-> w.gen, index |-> w.index]

\* PipetteToolbar.update_labels(local_pos): over_image says whether the
\* position is inside the current output's image, src_visible whether
\* the source label is shown
update_labels(w, over_image, src_visible) ==
    IF w.index < 0 THEN Raised("AttributeError")
    ELSE IF ~over_image \/ ~src_visible THEN PNone
    ELSE IF CurrentKey(w) \in w.pipette.outputs THEN PNone
    ELSE Raised("KeyError")

\* PipetteToolbar.on_current_output_changed(index, prev_index)
on_current_output_changed(w) ==
    [w EXCEPT !.pipette.outputs = @ \cup {CurrentKey(w)}]

\* PipetteToolbar.clear_outputs()
clear_outputs(w) == [w EXCEPT !.pipette.outputs = {}]

\* PipetteToolbar.on_toggle(new_state); connected counts the connections
\* of each mouse handler.  disconnect(slot) removes one connection of the
\* slot or all of them (all).
on_toggle(p, new_state, all) ==
    IF new_state
    THEN [p EXCEPT !.mouse_tracking = TRUE, !.connected = @ + 1,
                   !.IS_SUBSCRIBED_MOUSE_EVT = TRUE, !.tracking = TRUE]
    ELSE IF p.IS_SUBSCRIBED_MOUSE_EVT
    THEN [p EXCEPT !.mouse_tracking = FALSE,
                   !.connected = IF all THEN 0 ELSE @ - 1,
                   !.IS_SUBSCRIBED_MOUSE_EVT = FALSE, !.tracking = FALSE]
    ELSE [p EXCEPT !.mouse_tracking = FALSE, !.tracking = FALSE]

\* PipetteToolbar.mouse_moved(event)
mouse_moved(w, buttons, over_image, src_visible) ==
    IF w.pipette.tracking /\ ~buttons
    THEN update_labels(w, over_image, src_visible)
    ELSE PNone

\* MainWindow.switch_output(index): a Frame has neither __bool__ nor
\* __len__, so last_showed_frame is always true.  The toolbars hear of
\* the new output after switch_frame has returned.
switch_output(os, w, index, rendered) ==
    IF Len(os) = 0 THEN Main(os, w, PNone)
    ELSE IF index < 0 \/ index >= Len(os) THEN Main(os, w, PNone)
    ELSE LET cur == os[index + 1]
             w1  == [w EXCEPT !.index = index, !.end_frame = cur.end_frame]
             m   == IF cur.frame_to_show # PNone
                    THEN switch_frame(os, w1, cur.frame_to_show, TRUE,
                                      rendered)
                    ELSE switch_frame(os, w1, cur.last_showed_frame, TRUE,
                                      rendered)
         IN  IF IsRaised(m.res) THEN m
             ELSE Main(m.outs, on_current_output_changed(m.win), m.res)

\* the storage record of an output whose last showed frame was n
StoredAt(n) ==
    [name |-> PStr("x"), last_showed_frame |-> FrameOf(n),
     play_fps |-> Ratio(1, 1), frame_to_show |-> PNone,
     scening_lists |-> SceningListsOf(0)]

MainSource(n) ==
    [num_frames |-> n, fps_num |-> 1, fps_den |-> 1, name |-> Absent]

\* the state of the window a call started from
Before == [outs |-> outputs, win |-> win]

\* ------------------------------------------------------------ scripts
\* A script, by what executing it does: the clips it registers with
\* set_output (indices 0, 1, ...), whether it raises after that, and what
\* it does to sys.argv and sys.path.
MaxScriptClips == 2
SysEdits ==
    {"none", "argv", "path.append", "path.insert", "path.pop", "path.clear"}
ScriptsDoing(edits) ==
    [clips  : UNION {[1..n -> 1..MaxClipFrames] : n \in 0..MaxScriptClips},
     raises : BOOLEAN,
     sys    : edits]
Scripts == ScriptsDoing(SysEdits)

\* vs.get_outputs() after a script registered clips: set_output replaces
\* the entry of its index and leaves the others
set_outputs(registered, clips) ==
    [i \in 1..(IF Len(clips) > Len(registered) THEN Len(clips)
                ELSE Len(registered)) |->
        IF i <= Len(clips) THEN clips[i] ELSE registered[i]]

ButLast(q) == SubSeq(q, 1, Len(q) - 1)

\* the statements of a script that touch sys
exec_sys(w, edit) ==
    CASE edit = "argv"        -> [w EXCEPT !.argv = <<"script.vpy", "--x">>]
      [] edit = "path.append" -> [w EXCEPT !.path = Append(@, "plugins")]
      [] edit = "path.insert" -> [w EXCEPT !.path = <<"plugins">> \o @]
      [] edit = "path.pop"    -> [w EXCEPT !.path = ButLast(@)]
      [] edit = "path.clear"  -> [w EXCEPT !.path = <<>>]
      [] OTHER                -> w

\* exec(script text, ...) in the current core
exec(w, script) ==
    [exec_sys(w, script.sys) EXCEPT
        !.vs_outputs = set_outputs(@, script.clips),
        !.core = @ + 1]

\* toolbars.main.rescan_outputs(): one Output per registered clip, the
\* object restored from the storage file when it holds one for the index
rescan_outputs(clips, storage) ==
    [i \in 1..Len(clips) |->
        Output_init(IF i <= Len(storage)
                    THEN Output_setstate(storage[i]).o
                    ELSE Output_new("Output"),
                    MainSource(clips[i]), i - 1).o]

\* MainWindow.load_script(script_path, reloading=...); sys.path.pop() of
\* an empty list raises IndexError out of the finally clause
load_script(os, w, script, reloading, rendered) ==
    LET w1 == [w EXCEPT !.path = Append(@, "script_dir"),
                        !.argv = <<"script.vpy">>]
        w2 == exec(w1, script)
        w3 == [w2 EXCEPT !.argv = w.argv]
        w4 == [w3 EXCEPT !.path = ButLast(@)]
    IN  IF Len(w3.path) = 0
        THEN Main(os, [w3 EXCEPT !.script_exec_failed =
                            IF script.raises THEN TRUE ELSE @],
                  Raised("IndexError"))
        ELSE IF script.raises
        THEN Main(os, [w4 EXCEPT !.script_exec_failed = TRUE], PNone)
        ELSE LET w5 == [w4 EXCEPT !.script_exec_failed = FALSE]
             IN  IF Len(w5.vs_outputs) = 0 THEN Main(os, w5, PNone)
                 ELSE IF reloading THEN Main(os, w5, PNone)
                 ELSE switch_output(
                          rescan_outputs(w5.vs_outputs, w5.storage),
                          w5, OUTPUT_INDEX, rendered)

\* the script is loaded once, when the application starts
DoLoadScript(script, rendered) ==
    /\ last.op = "none"
    /\ LET m == load_script(outputs, win, script, FALSE, rendered)
       IN  /\ outputs' = m.outs
           /\ win' = m.win
           /\ last' = Call("load_script", <<script>>, m.res, Before)
    /\ UNCHANGED <<frames, scenes, fps, log, classes>>

DoMainSwitchFrame(pos, render_frame, rendered) ==
    /\ win.index >= 0 /\ ~win.closed
    /\ LET m == switch_frame(outputs, win, pos, render_frame, rendered)
       IN  /\ m.win.renders <= MaxRenders
           /\ outputs' = m.outs
           /\ win' = m.win
           /\ last' = Call("switch_frame",
                           <<pos, PBool(IF render_frame THEN 1 ELSE 0)>>,
                           m.res, Before)
    /\ UNCHANGED <<frames, scenes, fps, log, classes>>

DoSwitchOutput(index, rendered) ==
    /\ win.index >= 0 /\ ~win.closed
    /\ LET m == switch_output(outputs, win, index, rendered)
       IN  /\ m.win.renders <= MaxRenders
           /\ outputs' = m.outs
           /\ win' = m.win
           /\ last' = Call("switch_output", <<PInt(index)>>, m.res, Before)
    /\ UNCHANGED <<frames, scenes, fps, log, classes>>

Positions == {PNone} \cup {PInt(n) : n \in (0 - 1)..(MaxClipFrames + 1)}

\* the scripts of this specification register two clips, the first of one
\* frame or of the most frames and the second of one frame, and leave sys
\* alone
MainScripts ==
    {c \in ScriptsDoing({"none"}) :
        /\ Len(c.clips) = 2 /\ ~c.raises
        /\ c.clips[1] \in {1, MaxClipFrames} /\ c.clips[2] = 1}

\* the storage file found when the application starts: none, or one
\* written when the first output showed frame 1
MainInit ==
    /\ frames = <<>>
    /\ scenes = <<>>
    /\ fps = <<1, 1>>
    /\ last = Call("none", <<>>, PNone, 0)
    /\ outputs = <<>>
    /\ log = <<>>
    /\ win \in {MainWindow_new,
                [MainWindow_new EXCEPT !.storage = <<StoredAt(1)>>,
                                       !.storage_exists = TRUE]}
    /\ classes = NoInstances

MainNext ==
    \/ \E script \in MainScripts, rendered \in BOOLEAN :
            DoLoadScript(script, rendered)
    \/ \E pos \in Positions, render_frame \in BOOLEAN :
            DoMainSwitchFrame(pos, render_frame, TRUE)
    \/ \E pos \in Positions : DoMainSwitchFrame(pos, TRUE, FALSE)
    \/ \E index \in (0 - 1)..2 : DoSwitchOutput(index, TRUE)
    \/ \E index \in 0..1 : DoSwitchOutput(index, FALSE)

MainSpec == MainInit /\ [][MainNext]_vars

\* -------------------------------------------------------- reload_script
MaxAutosave == 1

\* toolbars.misc.save_sync() and save(): the storage file is written
\* with the state of every output
save(os, w) ==
    [w EXCEPT !.storage = [i \in 1..Len(os) |-> Output_getstate(os[i])],
              !.storage_exists = TRUE]

\* Output.clear()
Output_clear(o) == [o EXCEPT !.props = PNone, !.ready = FALSE]

\* vs.clear_outputs(), self.outputs.clear(), get_policy().reload_core()
\* and gc.collect(): no clip is registered, the outputs are cleared and
\* dropped (nothing is selected in the combobox), and the core is a new
\* one.  A dropped output that nothing else refers to is collected, and
\* its entry leaves the pipette's WeakKeyDictionary; kept are the keys of
\* the outputs that are still referred to.
clear(w, kept) ==
    [w EXCEPT !.vs_outputs = <<>>, !.index = 0 - 1, !.core = 0,
              !.gen = @ + 1, !.pipette.outputs = kept]

\* a variant of reload_script that saves after it has cleared
reload_script_saves_last(os, w, script, autosave, kept, rendered) ==
    LET m == load_script(<<>>, clear(w, kept), script, TRUE, rendered)
    IN  IF ~w.script_exec_failed \/ autosave # 0
        THEN Main(m.outs, save(<<>>, m.win), m.res)
        ELSE m

\* MainWindow.reload_script(); autosave is the value of
\* settings.autosave_control in seconds
reload_script(os, w, script, autosave, kept, rendered) ==
    LET w1 == IF ~w.script_exec_failed THEN save(os, w)
              ELSE IF autosave # 0 THEN save(os, w)
              ELSE w
    IN  load_script(<<>>, clear(w1, kept), script, TRUE, rendered)

MaxReloads == 2

DoReloadScript(script, autosave, kept, rendered) ==
    /\ last.op # "none" /\ ~win.closed /\ win.gen < MaxReloads
    /\ kept \subseteq win.pipette.outputs
    /\ LET m == reload_script(outputs, win, script, autosave, kept,
                              rendered)
       IN  /\ outputs' = m.outs
           /\ win' = m.win
           /\ last' = Call("reload_script", <<script, PInt(autosave)>>,
                           m.res, Before)
    /\ UNCHANGED <<frames, scenes, fps, log, classes>>

\* scripts whose clips have two frames
ReloadScripts ==
    {c \in ScriptsDoing({"none"}) : \A i \in 1..Len(c.clips) : c.clips[i] = 2}

ReloadNext ==
    \/ \E script \in ReloadScripts : DoLoadScript(script, TRUE)
    \/ \E pos \in {PInt(1), PInt(MaxClipFrames + 1)} :
            DoMainSwitchFrame(pos, TRUE, TRUE)
    \/ \E script \in ReloadScripts, autosave \in 0..MaxAutosave,
          kept \in SUBSET win.pipette.outputs :
            DoReloadScript(script, autosave, kept, TRUE)

ReloadSpec == MainInit /\ [][ReloadNext]_vars

\* ------------------------------------------------- pipette callbacks
MaxConnections == 2

\* the toggle button of the toolbar
DoToggle(new_state, all) ==
    /\ ~win.closed
    /\ win.pipette.connected < MaxConnections
    /\ win' = [win EXCEPT !.pipette = on_toggle(@, new_state, all)]
    /\ last' = Call("on_toggle", <<PBool(IF new_state THEN 1 ELSE 0)>>,
                    PNone, Before)
    /\ UNCHANGED <<frames, scenes, fps, outputs, log, classes>>

\* graphics_view.mouseMoved reaches the handler while it is connected
DoMouseMoved(buttons, over_image, src_visible) ==
    /\ ~win.closed /\ win.pipette.connected > 0
    /\ last' = Call("mouse_moved", <<>>,
                    mouse_moved(win, buttons, over_image, src_visible),
                    Before)
    /\ UNCHANGED <<frames, scenes, fps, outputs, log, win, classes>>

\* PipetteToolbar.mouse_pressed(event)
DoMousePressed(right) ==
    /\ ~win.closed /\ win.pipette.connected > 0
    /\ win' = [win EXCEPT !.pipette.tracking = IF right THEN FALSE ELSE @]
    /\ last' = Call("mouse_pressed", <<>>, PNone, Before)
    /\ UNCHANGED <<frames, scenes, fps, outputs, log, classes>>

\* PipetteToolbar.mouse_released(event)
DoMouseReleased(right, over_image, src_visible) ==
    /\ ~win.closed /\ win.pipette.connected > 0
    /\ win' = [win EXCEPT !.pipette.tracking = IF right THEN TRUE ELSE @]
    /\ last' = Call("mouse_released", <<>>,
                    update_labels(win, over_image, src_visible), Before)
    /\ UNCHANGED <<frames, scenes, fps, outputs, log, classes>>

\* MainWindow.closeEvent(event): save_on_exit is True; the signal calls
\* clear_outputs, and the window closes
closeEvent(os, w, autosave) ==
    LET w1 == IF autosave # 0 THEN save(os, w) ELSE w
    IN  [clear_outputs(w1) EXCEPT !.signals = @ + 1, !.closed = TRUE]

DoCloseEvent(autosave) ==
    /\ ~win.closed
    /\ win' = closeEvent(outputs, win, autosave)
    /\ last' = Call("closeEvent", <<PInt(autosave)>>, PNone, Before)
    /\ UNCHANGED <<frames, scenes, fps, outputs, log, classes>>

PipetteScripts ==
    {c \in ScriptsDoing({"none"}) :
        /\ ~c.raises
        /\ \A i \in 1..Len(c.clips) : c.clips[i] = 1}

PipetteNext ==
    \/ \E script \in PipetteScripts : DoLoadScript(script, TRUE)
    \/ \E index \in 0..1, rendered \in BOOLEAN :
            DoSwitchOutput(index, rendered)
    \/ \E new_state \in BOOLEAN, all \in BOOLEAN : DoToggle(new_state, all)
    \/ \E buttons \in BOOLEAN, over_image \in BOOLEAN :
            DoMouseMoved(buttons, over_image, TRUE)
    \/ \E right \in BOOLEAN : DoMousePressed(right)
    \/ \E right \in BOOLEAN, over_image \in BOOLEAN :
            DoMouseReleased(right, over_image, TRUE)
    \/ \E script \in PipetteScripts, kept \in SUBSET win.pipette.outputs :
            DoReloadScript(script, 0, kept, TRUE)
    \/ \E autosave \in 0..MaxAutosave : DoCloseEvent(autosave)

PipetteSpec == OutputInit /\ [][PipetteNext]_vars

\* ----------------------------------------------------------- Singleton
MaxObjects == 4

\* hasattr(cls, '__default_new__'): set by SingletonMeta.__new__ on a
\* class whose __new__ was not Singleton.__new__, and inherited
HasDefaultNew(c) == c \in {"A", "B"}

\* a new object of class c, not initialized
Allocate(k, c) ==
    [k EXCEPT !.objects = Append(@, [cls |-> c, inits |-> 0,
                via |-> IF HasDefaultNew(c) THEN "__default_new__"
                        ELSE "object.__new__"])]

\* a variant of Singleton.__new__ that allocates on every call
Singleton_new_allocates(k, c) ==
    [Allocate(k, c) EXCEPT !.instance[c] = Len(k.objects) + 1]

\* Singleton.__new__(cls): the state after it; it returns instance[c]
Singleton_new(k, c) ==
    IF k.instance[c] = 0
    THEN [Allocate(k, c) EXCEPT !.instance[c] = Len(k.objects) + 1]
    ELSE k

\* a variant of SingletonMeta.__call__ that always constructs
SingletonMeta_call_constructs(k, c) ==
    LET k1 == Singleton_new(k, c)
        id == k1.instance[c]
    IN  [k1 EXCEPT !.objects[id].inits = @ + 1,
                   !.stack = Append(@, [cls |-> c, obj |-> id])]

\* SingletonMeta.__call__(cls) up to the point where __init__ has
\* started: with an instance it returns at once; without, type.__call__
\* calls cls.__new__ and then __init__ on what it returned
SingletonMeta_call(k, c) ==
    IF k.instance[c] # 0 THEN k
    ELSE LET k1 == Singleton_new(k, c)
             id == k1.instance[c]
         IN  [k1 EXCEPT !.objects[id].inits = @ + 1,
                        !.stack = Append(@, [cls |-> c, obj |-> id])]

\* cls(...): returns the instance, or enters __init__
DoSingletonCall(c) ==
    /\ Len(classes.objects) < MaxObjects
    /\ classes' = SingletonMeta_call(classes, c)
    /\ last' = IF Len(classes'.stack) > Len(classes.stack)
               THEN Call("__init__", <<PStr(c)>>, PNone, 0)
               ELSE Call("__call__", <<PStr(c)>>,
                         PInt(classes'.instance[c]), 0)
    /\ UNCHANGED <<frames, scenes, fps, outputs, log, win>>

\* the innermost __init__ returns, and SingletonMeta.__call__ assigns
\* the object to cls.instance and returns it
DoSingletonInitDone ==
    /\ Len(classes.stack) > 0
    /\ LET top == classes.stack[Len(classes.stack)]
       IN  /\ classes' = [classes EXCEPT
                             !.stack = SubSeq(@, 1, Len(@) - 1),
                             !.instance[top.cls] = top.obj]
           /\ last' = Call("__call__", <<PStr(top.cls)>>, PInt(top.obj), 0)
    /\ UNCHANGED <<frames, scenes, fps, outputs, log, win>>

\* cls.__new__(cls), as yaml makes it before __setstate__
DoSingletonNew(c) ==
    /\ Len(classes.objects) < MaxObjects
    /\ classes' = Singleton_new(classes, c)
    /\ last' = Call("__new__", <<PStr(c)>>, PInt(classes'.instance[c]), 0)
    /\ UNCHANGED <<frames, scenes, fps, outputs, log, win>>

SingletonNext ==
    \/ \E c \in SingletonClasses : DoSingletonCall(c)
    \/ DoSingletonInitDone
    \/ \E c \in SingletonClasses : DoSingletonNew(c)

SingletonSpec == OutputInit /\ [][SingletonNext]_vars

\* ------------------------------------------------ scripts and sys
\* scripts of every kind (with one-frame clips), loaded when the
\* application starts and on each reload
SysScripts == {c \in Scripts : \A i \in 1..Len(c.clips) : c.clips[i] = 1}

ScriptNext ==
    \/ \E script \in SysScripts : DoLoadScript(script, TRUE)
    \/ \E script \in SysScripts, kept \in SUBSET win.pipette.outputs :
            DoReloadScript(script, 0, kept, TRUE)

ScriptSpec == OutputInit /\ [][ScriptNext]_vars

\* =============================================================== claims
\* what the last call was applied to, and what it gave
Arg(i) == last.args[i]
Res    == last.res

\* ---------------------------------------------------------------- C1
\* C1: after any sequence of Frame construction, +, -, += and -=, every
\* Frame object that exists has value >= 0.
C1_EveryFrameNonNegative == \A i \in FrameIds : frames[i] >= 0

\* ---------------------------------------------------------------- C2
\* C2: Frame(n) has value n for every integer n >= 0, raises ValueError for
\* every integer n < 0 and TypeError for every argument that is not an
\* integer, a Frame or a Time; FrameInterval(n) has value n for every
\* integer n, negative ones included.
C2_ConstructionClassifiesInput ==
    /\ last.op = "Frame" =>
         /\ (Arg(1).kind \in {"int", "bool"} /\ Arg(1).v >= 0) =>
                /\ Res.kind = "NewFrame"
                /\ last.ref = Len(frames)
                /\ frames[last.ref] = Arg(1).v
         /\ (Arg(1).kind \in {"int", "bool"} /\ Arg(1).v < 0) =>
                Res = Raised("ValueError") /\ last.ref = 0
         /\ Arg(1).kind \notin {"int", "bool", "Frame", "Time"} =>
                Res = Raised("TypeError") /\ last.ref = 0
    /\ last.op = "FrameInterval" =>
         (Arg(1).kind \in {"int", "bool"} =>
                Res.kind = "FrameInterval" /\ Res.v = Arg(1).v)

C2_Witness ==
    /\ last.op = "Frame"
    /\ Arg(1) = PInt(MaxVal)
    /\ Res.kind = "NewFrame"
    /\ frames[last.ref] = MaxVal

\* ---------------------------------------------------------------- C3
\* C3 as stated: for all Frames a and FrameIntervals d, (a + d) - d
\* evaluates to a Frame equal to a.
C3_AddThenSubReturnsA ==
    last.op = "addsub" =>
        Res.kind = "NewFrame" /\ Frame_eq(last.ref, Arg(1).v)

\* C3 as amended: (a + d) - d evaluates to a Frame equal to a when
\* a.value >= 0 and a.value + d.value >= 0, and raises ValueError
\* otherwise.
C3_AddThenSubReturnsAOrRaises ==
    last.op = "addsub" =>
        IF frames[Arg(1).v] >= 0 /\ frames[Arg(1).v] + Arg(2).v >= 0
        THEN /\ Res.kind = "NewFrame"
             /\ last.ref = Len(frames) /\ last.ref # Arg(1).v
             /\ Frame_eq(last.ref, Arg(1).v)
        ELSE Res = Raised("ValueError") /\ last.ref = 0

C3_Witness ==
    /\ last.op = "addsub"
    /\ Arg(2).v < 0
    /\ Res.kind = "NewFrame"
    /\ frames[last.ref] = frames[Arg(1).v]

C5_ComparisonsFollowIntegerOrder ==
    last.op = "cmp" =>
        LET av == frames[Arg(1).v]
            bv == frames[Arg(2).v]
        IN  /\ Res.eq = (av = bv)
            /\ Res.ne = (av # bv)
            /\ Res.lt = (av < bv)
            /\ Res.le = (av <= bv)
            /\ Res.gt = (av > bv)
            /\ Res.ge = (av >= bv)
            /\ Cardinality({c \in {"lt", "eq", "gt"} : Res[c]}) = 1

C5_Witness ==
    /\ last.op = "cmp"
    /\ frames[Arg(1).v] < frames[Arg(2).v]
    /\ Res.lt /\ Res.le /\ Res.ne

\* ---------------------------------------------------------------- C6
StartValue(s) == frames[scenes[s].start]
EndValue(s)   == frames[scenes[s].end]

\* C6: in every reachable state every Scene satisfies start <= end, also
\* after later in-place operations on the Frames given to its constructor.
C6_EverySceneOrdered == \A s \in SceneIds : StartValue(s) <= EndValue(s)

\* ---------------------------------------------------------------- C7
Min(m, n) == IF m <= n THEN m ELSE n
Max(m, n) == IF m >= n THEN m ELSE n

\* C7: Scene(a, b, l) has start = min(a, b), end = max(a, b), label = l;
\* with exactly one of start / end given both endpoints are that Frame;
\* with neither the constructor raises and no Scene is produced.
C7_ConstructorNormalizesEndpoints ==
    last.op = "Scene" =>
        LET st == Arg(1)
            en == Arg(2)
            new == scenes[last.ref]
        IN  /\ (st # PNone /\ en # PNone) =>
                /\ Res.kind = "NewScene" /\ last.ref = Len(scenes)
                /\ {new.start, new.end} = {st.v, en.v}
                /\ frames[new.start] = Min(frames[st.v], frames[en.v])
                /\ frames[new.end] = Max(frames[st.v], frames[en.v])
                /\ new.label = Arg(3).s
            /\ (st # PNone /\ en = PNone) =>
                /\ Res.kind = "NewScene" /\ last.ref = Len(scenes)
                /\ new = [start |-> st.v, end |-> st.v, label |-> Arg(3).s]
            /\ (st = PNone /\ en # PNone) =>
                /\ Res.kind = "NewScene" /\ last.ref = Len(scenes)
                /\ new = [start |-> en.v, end |-> en.v, label |-> Arg(3).s]
            /\ (st = PNone /\ en = PNone) =>
                Res = SceneRaised("ValueError") /\ last.ref = 0

C7_Witness ==
    /\ last.op = "Scene"
    /\ Arg(1) # PNone /\ Arg(2) # PNone
    /\ frames[Arg(1).v] > frames[Arg(2).v]
    /\ Arg(3).s = "x"
    /\ scenes[last.ref] = [start |-> Arg(2).v, end |-> Arg(1).v, label |-> "x"]

\* ---------------------------------------------------------------- C8
\* C8: (f in s) is true exactly when s.start <= f <= s.end; it is true
\* for both endpoints and false for start - 1 and end + 1.
C8_ContainsIsInclusiveRange ==
    last.op = "contains" =>
        LET s  == Arg(1).v
            fv == frames[Arg(2).v]
        IN  /\ Res = (StartValue(s) <= fv /\ fv <= EndValue(s))
            /\ fv \in {StartValue(s), EndValue(s)} => Res
            /\ fv \in {StartValue(s) - 1, EndValue(s) + 1} => ~Res

\* the part of C8 that does not rest on start <= end
C8_ContainsIffBetween ==
    last.op = "contains" =>
        Res = (    StartValue(Arg(1).v) <= frames[Arg(2).v]
               /\ frames[Arg(2).v] <= EndValue(Arg(1).v))

\* ---------------------------------------------------------------- C9
\* C9: Scene == and > compare (start, end) lexicographically and ignore
\* the label; !=, <, <=, >= are consistent with that order, and exactly
\* one of s < t, s == t, s > t holds.
C9_ScenesOrderedLexicographically ==
    last.op = "scmp" =>
        LET s == Arg(1).v
            t == Arg(2).v
            same == StartValue(s) = StartValue(t) /\ EndValue(s) = EndValue(t)
            more == \/ StartValue(s) > StartValue(t)
                    \/ StartValue(s) = StartValue(t) /\ EndValue(s) > EndValue(t)
        IN  /\ Res.eq = same
            /\ Res.gt = more
            /\ Res.ne = ~same
            /\ Res.ge = (same \/ more)
            /\ Res.le = ~more
            /\ Res.lt = (~same /\ ~more)
            /\ Cardinality({c \in {"lt", "eq", "gt"} : Res[c]}) = 1

C9_Witness ==
    /\ last.op = "scmp"
    /\ StartValue(Arg(1).v) = StartValue(Arg(2).v)
    /\ EndValue(Arg(1).v) > EndValue(Arg(2).v)
    /\ StartValue(Arg(1).v) <= EndValue(Arg(2).v)
    /\ scenes[Arg(1).v].label # scenes[Arg(2).v].label
    /\ Res.gt /\ Res.ge /\ Res.ne

\* --------------------------------------------------------------- C10
\* C10: serializing any Scene with __getstate__ and deserializing the
\* result with __setstate__ yields a Scene with the same start, the same
\* end and the same label.
C10_RoundTripPreservesScene ==
    last.op = "roundtrip" =>
        /\ Res.kind = "NewScene"
        /\ last.ref = Len(scenes)
        /\ scenes[last.ref] = scenes[Arg(1).v]

\* the round trip of a Scene whose start <= end
C10_RoundTripPreservesOrderedScene ==
    (last.op = "roundtrip" /\ StartValue(Arg(1).v) <= EndValue(Arg(1).v)) =>
        /\ Res.kind = "NewScene"
        /\ last.ref = Len(scenes)
        /\ StartValue(last.ref) = StartValue(Arg(1).v)
        /\ EndValue(last.ref) = EndValue(Arg(1).v)
        /\ scenes[last.ref].label = scenes[Arg(1).v].label

\* --------------------------------------------------------------- C11
\* the fields of the mapping given to the last __setstate__, in the order
\* Scene.__slots__ lists them
Field(i)       == Arg(i)
FieldType(i)   == IF i = 3 THEN "str" ELSE "Frame"
FieldLacks(i)  == Field(i) = Absent
FieldWrong(i)  == ~FieldLacks(i) /\ Field(i).kind # FieldType(i)

\* C11 as stated: a mapping that lacks at least one of start, end, label
\* always makes __setstate__ raise the KeyError that names the fields,
\* whatever the other fields hold.
C11_MissingFieldAlwaysKeyError ==
    (last.op = "setstate" /\ \E i \in 1..3 : FieldLacks(i)) =>
        Res.kind = "KeyError"

\* C11: a mapping that lacks a field or holds a wrongly typed one makes
\* __setstate__ raise and assign no field of the Scene; the error is the
\* KeyError when the first field (in the order start, end, label) that is
\* missing or wrongly typed is a missing one, and the TypeError when it is
\* a wrongly typed one; a mapping with all fields present and one of them
\* wrongly typed raises TypeError and is never coerced into a Scene.
C11_CorruptStateRaises ==
    [][last'.op = "setstate" =>
        LET lacks(i) == last'.args[i] = Absent
            wrong(i) == ~lacks(i) /\ last'.args[i].kind # FieldType(i)
            bad(i)   == lacks(i) \/ wrong(i)
            first(i) == bad(i) /\ \A j \in 1..(i - 1) : ~bad(j)
        IN  /\ (\E i \in 1..3 : bad(i)) =>
                /\ last'.res.kind \in {"KeyError", "TypeError"}
                /\ last'.ref = 0
                /\ scenes' = scenes
            /\ (\E i \in 1..3 : first(i) /\ lacks(i)) =>
                last'.res.kind = "KeyError"
            /\ (\E i \in 1..3 : first(i) /\ wrong(i)) =>
                last'.res.kind = "TypeError"
            /\ ((\A i \in 1..3 : ~lacks(i)) /\ (\E i \in 1..3 : wrong(i))) =>
                last'.res.kind = "TypeError"
            /\ (\A i \in 1..3 : ~bad(i)) => last'.res.kind = "NewScene"
     ]_vars

\* a mapping whose start is an int and whose end is missing: TypeError
C11_Witness ==
    /\ last.op = "setstate"
    /\ FieldWrong(1) /\ FieldLacks(2)
    /\ Res.kind = "TypeError"
    /\ last.ref = 0

\* ------------------------------------------------------- C12 .. C16
\* the output, the mapping it was restored from, and whether the last
\* call was an Output.__init__ on a restored object that ran to its end
Out        == outputs[1]
Stored     == Out.stored
Restored   == last.op = "Output.__init__" /\ Res = PNone
Source     == Arg(1)

\* --------------------------------------------------------------- C12
\* C12: when the persisted last_showed_frame of a video output is a Frame
\* greater than end_frame, restoring and initializing the output raises
\* nothing, leaves last_showed_frame = Frame(0), and has logged a warning.
C12_OutOfRangeFrameResetWithWarning ==
    (last.op = "Output.__init__"
        /\ Stored.last_showed_frame.kind = "Frame"
        /\ Stored.last_showed_frame.v > Source.num_frames - 1) =>
        /\ Res = PNone
        /\ Out.last_showed_frame = FrameOf(0)
        /\ log # <<>>

\* the part of C12 that holds: nothing is raised and the Frame is reset
C12_OutOfRangeFrameReset ==
    (last.op = "Output.__init__"
        /\ Stored.last_showed_frame.kind = "Frame"
        /\ Stored.last_showed_frame.v > Source.num_frames - 1) =>
        /\ Res = PNone
        /\ Out.last_showed_frame = FrameOf(0)

\* --------------------------------------------------------------- C14
\* C14: a video output restored from a record that holds a str name and
\* then initialized from its source has the persisted name.
C14_PersistedNameKept ==
    (Restored /\ Stored.name.kind = "str") => Out.name = Stored.name

\* --------------------------------------------------------------- C15
\* C15: writing an output with __getstate__ and restoring it from the
\* result gives back each of name, last_showed_frame, play_fps,
\* scening_lists and frame_to_show as it was written.
C15_EveryStoredAttributeRestored ==
    (last.op = "reload" /\ Res = PNone) => Output_getstate(Out) = Arg(1)

\* the four attributes other than frame_to_show do come back
C15_AttributesButFrameToShowRestored ==
    (last.op = "reload" /\ Res = PNone) =>
        \A a \in {"name", "last_showed_frame", "play_fps", "scening_lists"} :
            Output_getstate(Out)[a] = Arg(1)[a]

\* --------------------------------------------------------------- C16
\* whether the persisted play_fps is a float greater than 0, and whether
\* the float x equals fps_num / fps_den of the source
StoredPlayFpsValid == Stored.play_fps.kind = "float" /\ Stored.play_fps.num > 0
IsSourceFps(x)     == x.num * Source.fps_den = x.den * Source.fps_num

\* C16 as stated: after a video output is restored and initialized,
\* play_fps is a float greater than 0, the persisted one when that is a
\* float greater than 0 and the source fps otherwise.
C16_PlayFpsAlwaysPositive ==
    Restored =>
        /\ Out.play_fps.kind = "float" /\ Out.play_fps.num > 0
        /\ StoredPlayFpsValid => Out.play_fps = Stored.play_fps
        /\ ~StoredPlayFpsValid => IsSourceFps(Out.play_fps)

\* C16: after a video output is restored and initialized, play_fps is a
\* float: the persisted value when that is a float greater than 0, and
\* the source fps (fps_num / fps_den) when the persisted value is
\* missing, not a float, zero or negative; so it is greater than 0
\* exactly when the persisted value is valid or the source fps is.
C16_PlayFpsPersistedOrSource ==
    Restored =>
        /\ Out.play_fps.kind = "float" /\ Out.play_fps.den > 0
        /\ StoredPlayFpsValid => Out.play_fps = Stored.play_fps
        /\ ~StoredPlayFpsValid => IsSourceFps(Out.play_fps)
        /\ Out.play_fps.num > 0 <=> (StoredPlayFpsValid \/ Source.fps_num > 0)

\* a persisted play_fps of 0.0 gives way to a source fps of 3 / 2
C16_Witness ==
    /\ Restored
    /\ Stored.play_fps = Ratio(0, 1)
    /\ Source.fps_num = 3 /\ Source.fps_den = 2
    /\ Out.play_fps = Ratio(3, 2)

\* --------------------------------------------------------------- C13
\* the document given to the last load_storage, and whether the Scene
\* node of its output i lacks a field or holds a wrongly typed one
Doc == Arg(2)
CorruptScene(i) ==
    \/ Absent \in {Doc[i].scene.start, Doc[i].scene.end, Doc[i].scene.label}
    \/ Doc[i].scene.start.kind # "Frame"
    \/ Doc[i].scene.end.kind # "Frame"
    \/ Doc[i].scene.label.kind # "str"

\* C13: when the storage file is found and parsed and the Scene node of
\* one of its outputs is corrupt, load_storage returns normally and every
\* other output of the document has been restored with its own name.
C13_CorruptSceningListsDoesNotAbortLoad ==
    (last.op = "load_storage" /\ Arg(1) = PBool(0) /\ Doc # Unparsable
        /\ Cardinality({i \in 1..Len(Doc) : CorruptScene(i)}) = 1) =>
        /\ Res = PNone
        /\ \A i \in 1..Len(Doc) : ~CorruptScene(i) =>
              \E o \in 1..Len(outputs) : outputs[o].name = Doc[i].name

\* ------------------------------------------------------- C17 .. C20
\* the constructed output is a video output / an audio output, and the
\* integer or the number of microseconds the last conversion was given
IsVideo == Len(outputs) = 1 /\ Out.ready /\ Out.cls = "Output"
IsAudio == Len(outputs) = 1 /\ Out.ready /\ Out.cls = "AudioOutput"
Given   == Arg(1).v
Abs(n)  == IF n < 0 THEN 0 - n ELSE n

\* --------------------------------------------------------------- C17
\* C17 as stated: for every video output with fps > 0 and every Frame n,
\* to_frame(to_time(n)) is a Frame that differs from n by at most 1.
C17_RoundTripWithinOneFrame ==
    (last.op = "to_time_to_frame" /\ IsVideo /\ Out.fps.num > 0) =>
        /\ Res.kind = "NewFrame"
        /\ Abs(Res.v - Given) <= 1

\* C17: for every video output with 0 < fps <= 2 * 10^6 frames per second
\* (a Time holds whole microseconds) and every Frame n,
\* to_frame(to_time(n)) is a Frame that differs from n by at most 1, and
\* it is n itself when fps <= 10^6.
C17_RoundTripWithinOneFrameUpTo2MHz ==
    (last.op = "to_time_to_frame" /\ IsVideo /\ Out.fps.num > 0
        /\ Out.fps.num <= 2 * MicrosPerSecond * Out.fps.den) =>
        /\ Res.kind = "NewFrame"
        /\ Abs(Res.v - Given) <= 1
        /\ Out.fps.num <= MicrosPerSecond * Out.fps.den => Res.v = Given

\* at 2 * 10^6 frames per second Frame(3) comes back as Frame(4)
C17_Witness ==
    /\ last.op = "to_time_to_frame" /\ IsVideo
    /\ Out.fps = Ratio(2 * MicrosPerSecond, 1)
    /\ Given = 3
    /\ Res = NewFrame(4)

\* --------------------------------------------------------------- C18
\* seconds * fps of the last to_frame, as a fraction
Position == SecondsTimesFps(Out, Given)

\* C18: for every audio output and every Time t >= 0, to_frame(t) is the
\* Frame k with k <= seconds * fps < k + 1 (the floor), while to_frame of
\* a video output is a Frame k with |seconds * fps - k| <= 1/2 (the
\* nearest integer).
C18_AudioFloorsVideoRounds ==
    (last.op = "to_frame" /\ Given >= 0) =>
        /\ Res.kind = "NewFrame"
        /\ IsAudio =>
              /\ Res.v * Position.den <= Position.num
              /\ Position.num < (Res.v + 1) * Position.den
        /\ IsVideo =>
              2 * Abs(Position.num - Res.v * Position.den) <= Position.den

\* at 48000 / 3000 = 16 frames per second, 0.99 / 16 s is still Frame(0)
C18_Witness ==
    /\ last.op = "to_frame" /\ IsAudio
    /\ Out.fps = Ratio(16, 1)
    /\ Given = 61875
    /\ Res = NewFrame(0)

\* --------------------------------------------------------------- C19
\* C19 as stated: for a video output whose fps is zero, to_frame(t) and
\* to_frame_interval(t) give round(seconds * 1).
C19_ZeroFpsTakenAsOneToFrames ==
    (last.op \in {"to_frame", "to_frame_interval"} /\ IsVideo
        /\ Out.fps.num = 0) =>
        Res.v = RoundHalfEven(Given, MicrosPerSecond)

\* C19: for a video output whose fps is zero (fps_num = 0), to_frame(t)
\* and to_frame_interval(t) give round(seconds * 0) = 0 for every t; it
\* is to_time(n) and to_time_interval(n) that take fps as 1 and give n
\* seconds.
C19_ZeroFpsTakenAsOneToSeconds ==
    (IsVideo /\ Out.fps.num = 0) =>
        /\ last.op = "to_frame" => Res = NewFrame(0)
        /\ last.op = "to_frame_interval" => Res = PInterval(0)
        /\ last.op \in {"to_time", "to_time_interval"} =>
              Res = PTime(Given * MicrosPerSecond)

\* with fps = 0, to_frame of 1 s is Frame(0)
C19_Witness ==
    /\ last.op = "to_frame" /\ IsVideo
    /\ Out.fps.num = 0
    /\ Given = MicrosPerSecond
    /\ Res = NewFrame(0)

\* --------------------------------------------------------------- C20
\* C20: for every source frame rate, a zero numerator and a zero
\* denominator included, constructing the output (fps, total_time,
\* end_time) and calling to_frame, to_time, to_frame_interval and
\* to_time_interval never raise ZeroDivisionError.
C20_NoDivisionByZero ==
    last.op \in {"Output", "AudioOutput", "to_frame", "to_time",
                 "to_frame_interval", "to_time_interval"} =>
        Res.kind # "ZeroDivisionError"

\* a video output of fps 0 / 1 is constructed and converts without raising
C20_ZeroNumeratorVideoCompletes ==
    (last.op \in {"Output", "to_frame", "to_time", "to_frame_interval",
                  "to_time_interval"}
        /\ Len(outputs) = 1 /\ Out.cls = "Output" /\ Out.fps_den # 0) =>
        ~IsRaised(Res)

\* --------------------------------------------------------------- C21
\* the kinds of positional value Time / TimeInterval accept
AcceptedKinds ==
    IF last.op = "Time" THEN {"timedelta", "Time", "Frame"}
    ELSE {"timedelta", "TimeInterval", "FrameInterval"}

\* C21: Time(...) and TimeInterval(...) raise TypeError for a positional
\* value that is not a duration, an object of the same class or a Frame
\* (FrameInterval), whether or not keywords are given; the keywords give
\* the value only when no positional value is given; with no argument
\* the value is the zero duration.
C21_WrongPositionalAlwaysTypeError ==
    last.op \in {"Time", "TimeInterval"} =>
        /\ (Arg(1) # PNone /\ Arg(1).kind \notin AcceptedKinds) =>
              Res = Raised("TypeError")
        /\ (Arg(1) = PNone /\ Arg(2) # Absent) =>
              Res = NewTime(Arg(2).v * MicrosPerSecond)
        /\ (Arg(1) = PNone /\ Arg(2) = Absent) => Res = NewTime(0)

\* what does hold: a wrong positional value raises TypeError when no
\* keyword is given, and an accepted one gives the value whatever the
\* keywords are
C21_WrongPositionalTypeErrorWithoutKeywords ==
    last.op \in {"Time", "TimeInterval"} =>
        /\ (Arg(1) # PNone /\ Arg(1).kind \notin AcceptedKinds
                /\ Arg(2) = Absent) => Res = Raised("TypeError")
        /\ Arg(1).kind \in {"timedelta", last.op} => Res = NewTime(Arg(1).v)
        /\ (Arg(1) = PNone /\ Arg(2) # Absent) =>
              Res = NewTime(Arg(2).v * MicrosPerSecond)
        /\ (Arg(1) = PNone /\ Arg(2) = Absent) => Res = NewTime(0)


\* ------------------------------------------------------- C22, C23
\* the current output before and after the last call
CurBefore == last.ref.outs[last.ref.win.index + 1]
CurAfter  == outputs[last.ref.win.index + 1]

SwitchFrameCalled == last.op = "switch_frame"
PosIsNone     == Arg(1).kind = "NoneType"
PosIsNegative == Arg(1).kind = "int" /\ Arg(1).v < 0
PosIsBeyond   == Arg(1).kind = "int" /\ Arg(1).v > CurBefore.end_frame

\* C22: after any sequence of switch_frame and switch_output calls on
\* loaded outputs every output's last_showed_frame is <= its end_frame,
\* and a switch_frame beyond end_frame does not render, does not move
\* the timeline and does not change last_showed_frame.
C22_LastShowedFrameWithinEndFrame ==
    /\ \A i \in 1..Len(outputs) :
            outputs[i].last_showed_frame.v <= outputs[i].end_frame
    /\ SwitchFrameCalled /\ PosIsBeyond =>
            /\ win.renders = last.ref.win.renders
            /\ win.position = last.ref.win.position
            /\ CurAfter.last_showed_frame = CurBefore.last_showed_frame

\* a request beyond the end of an output whose timeline had moved off 0
C22_Witness ==
    /\ SwitchFrameCalled /\ PosIsBeyond
    /\ win.position > 0 /\ win.renders > 0
    /\ CurAfter.last_showed_frame.v = CurAfter.end_frame

\* C23: a rejected switch_frame request (position None, a negative
\* integer, or beyond the current output's end_frame) leaves
\* last_showed_frame, frame_to_show and the timeline position as they
\* were.
C23_RejectedRequestChangesNothing ==
    SwitchFrameCalled /\ (PosIsNone \/ PosIsNegative \/ PosIsBeyond) =>
        /\ CurAfter.last_showed_frame = CurBefore.last_showed_frame
        /\ CurAfter.frame_to_show = CurBefore.frame_to_show
        /\ win.position = last.ref.win.position

\* C23 as the code has it: a request of None or of a negative integer
\* changes nothing (the negative one raises ValueError); a request beyond
\* end_frame keeps last_showed_frame and the timeline position, and
\* stores the requested frame in frame_to_show.
C23_RejectedRequestKeepsShownFrame ==
    /\ SwitchFrameCalled /\ (PosIsNone \/ PosIsNegative) =>
            /\ outputs = last.ref.outs /\ win = last.ref.win
            /\ PosIsNegative => Res = Raised("ValueError")
    /\ SwitchFrameCalled /\ PosIsBeyond =>
            /\ CurAfter.last_showed_frame = CurBefore.last_showed_frame
            /\ win.position = last.ref.win.position
            /\ CurAfter.frame_to_show = FrameOf(Arg(1).v)

\* a request beyond end_frame on an output that had another frame to show
C23_Witness ==
    /\ SwitchFrameCalled /\ PosIsBeyond
    /\ CurBefore.frame_to_show # PNone
    /\ CurBefore.frame_to_show # CurAfter.frame_to_show


\* ------------------------------------------------------------- C24
ReloadCalled    == last.op = "reload_script"
FailedBefore    == last.ref.win.script_exec_failed
StateBefore     ==
    [i \in 1..Len(last.ref.outs) |-> Output_getstate(last.ref.outs[i])]
SavedBeforeCleared == win.storage_exists /\ win.storage = StateBefore
ClearedBeforeExecuted ==
    /\ win.vs_outputs = Arg(1).clips
    /\ win.core = 1
    /\ outputs = <<>>
NothingRendered ==
    /\ win.renders = last.ref.win.renders
    /\ win.position = last.ref.win.position

PreReloadEntries == {k \in win.pipette.outputs : k.gen < win.gen}

\* C25: reload_script emits reload_signal before the script is executed
\* again, and after it the pipette's clip cache holds no entry created
\* for a pre-reload output.
C25_ReloadSignalDropsOldClips ==
    ReloadCalled =>
        /\ win.signals > last.ref.win.signals
        /\ PreReloadEntries = {}

\* what the code does: only closeEvent emits reload_signal
C25_OnlyCloseEventEmits ==
    last.op \notin {"none", "closeEvent"} =>
        win.signals = last.ref.win.signals


\* ------------------------------------------------------- C26, C27
ObjectsOf(c) == {i \in 1..Len(classes.objects) : classes.objects[i].cls = c}
Running(c)   == \E i \in 1..Len(classes.stack) : classes.stack[i].cls = c
Returned     == last.op \in {"__call__", "__new__"}

\* C26: every construction call of a singleton class returns the
\* identical instance, the class's __init__ runs at most once, and two
\* singleton classes (a subclass of a singleton class included) never
\* share an instance.
C26_OneInstanceInitializedOnce ==
    /\ \A c \in SingletonClasses :
            /\ Cardinality(ObjectsOf(c)) <= 1
            /\ \A i \in ObjectsOf(c) : classes.objects[i].inits <= 1
            /\ classes.instance[c] # 0 => classes.instance[c] \in ObjectsOf(c)
    /\ \A c, d \in SingletonClasses :
            c # d /\ classes.instance[c] # 0 =>
                classes.instance[c] # classes.instance[d]
    /\ last.op = "__call__" =>
            /\ Res.v # 0
            /\ Res.v = classes.instance[Arg(1).s]

\* a second construction call of the subclass B returned B's instance
\* while A has another one, both initialized
C26_Witness ==
    /\ last.op = "__call__" /\ Arg(1).s = "B"
    /\ classes.instance["A"] # 0 /\ classes.instance["B"] # 0
    /\ classes.objects[classes.instance["A"]].inits = 1
    /\ classes.objects[classes.instance["B"]].inits = 1
    /\ classes.stack = <<>>

\* C27: a constructor call made while the same class's __init__ is
\* running returns the instance under construction, a bare __new__ call
\* returns the existing instance when there is one, and at no point do
\* two instances of one singleton class exist.
C27_ReentryAndBareNewReturnTheInstance ==
    /\ \A c \in SingletonClasses : Cardinality(ObjectsOf(c)) <= 1
    /\ \A i \in 1..Len(classes.stack) :
            classes.instance[classes.stack[i].cls] = classes.stack[i].obj
    /\ Returned => Res.v # 0 /\ ObjectsOf(Arg(1).s) = {Res.v}

\* a constructor call of A returned while A's __init__ was running
C27_Witness ==
    /\ last.op = "__call__" /\ Arg(1).s = "A" /\ Running("A")
    /\ Res.v = classes.stack[1].obj

\* a bare __new__ returned the instance that a call had initialized
\* before
C27_WitnessBareNew ==
    /\ last.op = "__new__" /\ Arg(1).s = "A"
    /\ classes.objects[Res.v].inits = 1
    /\ \E i \in 1..Len(classes.stack) : classes.stack[i].cls = "C"


\* ------------------------------------------------------- C28, C29
Toggled   == last.op = "on_toggle"
ToggledOn == Arg(1).v = 1

\* C28: after any sequence of on_toggle calls the three mouse handlers
\* are connected exactly once when the last toggle was True and not at
\* all when it was False, never twice; unsubscribe is never attempted
\* while not subscribed; IS_SUBSCRIBED_MOUSE_EVT and tracking equal the
\* last toggle state.
C28_HandlersConnectedOnceOrNotAtAll ==
    /\ win.pipette.connected <= 1
    /\ Toggled =>
            /\ win.pipette.connected = IF ToggledOn THEN 1 ELSE 0
            /\ win.pipette.IS_SUBSCRIBED_MOUSE_EVT = ToggledOn
            /\ win.pipette.tracking = ToggledOn

\* what holds of on_toggle: the two flags follow the toggle, and the
\* handlers are connected whenever the flag says so
C28_FlagsFollowToggle ==
    /\ win.pipette.IS_SUBSCRIBED_MOUSE_EVT => win.pipette.connected >= 1
    /\ Toggled =>
            /\ win.pipette.IS_SUBSCRIBED_MOUSE_EVT = ToggledOn
            /\ win.pipette.tracking = ToggledOn
            /\ win.pipette.mouse_tracking = ToggledOn

\* C29: in every interleaving of the pipette's callbacks, whenever
\* update_labels looks up the clip of the current output in the cache,
\* an entry for that output exists.
C29_LookupNeverMissesKey ==
    last.op \in {"mouse_moved", "mouse_released"} =>
        Res # Raised("KeyError")


\* ------------------------------------------------------------- C30
ScriptLoaded == last.op \in {"load_script", "reload_script"}

\* C30: on every exit path load_script leaves sys.argv and sys.path as
\* it found them, whatever the executed script did to them.
C30_SysRestoredWhateverTheScriptDid ==
    ScriptLoaded =>
        /\ win.argv = last.ref.win.argv
        /\ win.path = last.ref.win.path

\* what holds: sys.argv is restored on every exit path, and sys.path
\* when the script did not change sys.path itself
C30_ArgvRestoredAndUntouchedPathRestored ==
    ScriptLoaded =>
        /\ win.argv = last.ref.win.argv
        /\ Arg(1).sys \in {"none", "argv"} =>
                win.path = last.ref.win.path /\ ~IsRaised(Res)

============================================================================
